---------------------------- MODULE Spec2Model ----------------------------
(***************************************************************************)
(* Model of src/app.py: the TodoApp task store (an in-memory list of task  *)
(* dictionaries, rewritten whole to a JSON file after every mutation) and  *)
(* the operations the command loop invokes on it.                          *)
(*                                                                         *)
(* A timestamp is the number of the datetime.now() reading that produced   *)
(* it: the n-th reading of the clock yields the ISO string modelled by n.  *)
(***************************************************************************)
EXTENDS Integers, Sequences, FiniteSets, TLC

\* Number of clock readings (add_task and successful complete_task calls) in a run.
MaxClock == 4

\* Task descriptions the user types.
Descs == {"milk"}

\* Priority arguments handed to add_task.
PriorityInputs == {"high", "medium", "low", "HIGH", "Low"}

\* Ids the user types after complete / delete: every id a task can have, and one more.
TaskIds == 1..(MaxClock + 1)

\* Python's None.
None == <<>>

\* datetime.now().isoformat() for the clock reading now: a string value.
isoformat(now) == <<now>>

VARIABLES todos, file, clock, out

vars == <<todos, file, clock, out>>

---------------------------------------------------------------------------
(* JSON file format *)

\* json_dump_task with a slip: completed_at is always written as null.
json_dump_task_null(t) ==
    [id           |-> <<"number", t.id>>,
     task         |-> <<"string", t.task>>,
     completed    |-> IF t.completed THEN <<"true">> ELSE <<"false">>,
     priority     |-> <<"string", t.priority>>,
     created_at   |-> <<"string", t.created_at[1]>>,
     completed_at |-> <<"null">>]

\* json.dump of one task dictionary: every value becomes a JSON token.
json_dump_task(t) ==
    [id           |-> <<"number", t.id>>,
     task         |-> <<"string", t.task>>,
     completed    |-> IF t.completed THEN <<"true">> ELSE <<"false">>,
     priority     |-> <<"string", t.priority>>,
     created_at   |-> <<"string", t.created_at[1]>>,
     completed_at |-> IF t.completed_at = None
                         THEN <<"null">>
                         ELSE <<"string", t.completed_at[1]>>]

\* json.dump of the whole list.
json_dump(ts) == [i \in 1..Len(ts) |-> json_dump_task(ts[i])]

\* json.load of one JSON object.
json_load_task(j) ==
    [id           |-> j.id[2],
     task         |-> j.task[2],
     completed    |-> (j.completed[1] = "true"),
     priority     |-> j.priority[2],
     created_at   |-> <<j.created_at[2]>>,
     completed_at |-> IF j.completed_at[1] = "null"
                         THEN None
                         ELSE <<j.completed_at[2]>>]

\* json.load of the whole array.
json_load(text) == [i \in 1..Len(text) |-> json_load_task(text[i])]

\* The file before the first save: it does not exist.
NoFile == [exists |-> FALSE, text |-> <<>>]

\* load_todos: the parsed file, or the empty list when there is no file.
load_todos(f) == IF f.exists THEN json_load(f.text) ELSE <<>>

\* save_todos: open(filename, 'w') truncates, json.dump writes the whole list.
save_todos(ts) == [exists |-> TRUE, text |-> json_dump(ts)]

---------------------------------------------------------------------------
(* Helpers *)

\* str.lower() on the priority argument.
lower(p) ==
    CASE p = "HIGH" -> "high"
      [] p = "Low"  -> "low"
      [] OTHER      -> p

\* priority_order.get(x['priority'], 2)
priority_rank(p) ==
    CASE p = "high"   -> 1
      [] p = "medium" -> 2
      [] p = "low"    -> 3
      [] OTHER        -> 2

\* sort_insert with a slip: x goes before the elements of equal key (not stable).
sort_insert_before(s, x) ==
    LET k == Cardinality({i \in 1..Len(s) :
                            priority_rank(s[i].priority) < priority_rank(x.priority)})
    IN  SubSeq(s, 1, k) \o <<x>> \o SubSeq(s, k + 1, Len(s))

\* One step of the stable sort: x goes after every element whose key is not larger.
sort_insert(s, x) ==
    LET k == Cardinality({i \in 1..Len(s) :
                            priority_rank(s[i].priority) <= priority_rank(x.priority)})
    IN  SubSeq(s, 1, k) \o <<x>> \o SubSeq(s, k + 1, Len(s))

\* list.sort(key=...): a stable sort by priority rank.
RECURSIVE sort_by_priority(_)
sort_by_priority(ts) ==
    IF ts = <<>>
       THEN <<>>
       ELSE sort_insert(sort_by_priority(SubSeq(ts, 1, Len(ts) - 1)), ts[Len(ts)])

\* The loop "for task in self.todos: if task['id'] == task_id": the index of the
\* first match at or after i, 0 when the loop runs off the end.
RECURSIVE find_from(_, _, _)
find_from(ts, task_id, i) ==
    IF i > Len(ts) THEN 0
    ELSE IF ts[i].id = task_id THEN i
    ELSE find_from(ts, task_id, i + 1)

\* list.pop(i)
pop(ts, i) == SubSeq(ts, 1, i - 1) \o SubSeq(ts, i + 1, Len(ts))

---------------------------------------------------------------------------
(* TodoApp methods: the new list, whether save_todos ran, and what was printed *)

\* add_task with a slip: the id is the count of tasks, not the count plus one.
add_task_len(ts, task, priority, now) ==
    LET new_task == [id           |-> Len(ts),
                     task         |-> task,
                     completed    |-> FALSE,
                     priority     |-> lower(priority),
                     created_at   |-> isoformat(now),
                     completed_at |-> None]
    IN  [todos |-> Append(ts, new_task), save |-> TRUE, msg |-> "Added"]

add_task(ts, task, priority, now) ==
    LET new_task == [id           |-> Len(ts) + 1,
                     task         |-> task,
                     completed    |-> FALSE,
                     priority     |-> lower(priority),
                     created_at   |-> isoformat(now),
                     completed_at |-> None]
    IN  [todos |-> Append(ts, new_task), save |-> TRUE, msg |-> "Added"]

\* view_tasks with a slip: the pending filter is missing.
view_tasks_unfiltered(ts, show_completed) ==
    IF ts = <<>>
       THEN [todos |-> ts, shown |-> <<>>, msg |-> "No tasks found"]
       ELSE IF show_completed
               THEN [todos |-> sort_by_priority(ts),
                     shown |-> sort_by_priority(ts),
                     msg   |-> "Listed"]
               ELSE [todos |-> ts,
                     shown |-> sort_by_priority(ts),
                     msg   |-> "Listed"]

view_tasks(ts, show_completed) ==
    IF ts = <<>>
       THEN [todos |-> ts, shown |-> <<>>, msg |-> "No tasks found"]
       ELSE IF show_completed
               \* tasks_to_show is self.todos itself: sort() reorders the store's list
               THEN [todos |-> sort_by_priority(ts),
                     shown |-> sort_by_priority(ts),
                     msg   |-> "Listed"]
               ELSE LET tasks_to_show == SelectSeq(ts, LAMBDA t : ~t.completed)
                    IN  IF tasks_to_show = <<>>
                           THEN [todos |-> ts, shown |-> <<>>,
                                 msg |-> "No completed tasks found"]
                           ELSE [todos |-> ts,
                                 shown |-> sort_by_priority(tasks_to_show),
                                 msg   |-> "Listed"]

\* complete_task with a slip: completed_at is not set.
complete_task_no_stamp(ts, task_id, now) ==
    LET i == find_from(ts, task_id, 1)
    IN  IF i = 0
           THEN [todos |-> ts, save |-> FALSE, msg |-> "NotFound"]
           ELSE IF ts[i].completed
                   THEN [todos |-> ts, save |-> FALSE, msg |-> "AlreadyCompleted"]
                   ELSE [todos |-> [ts EXCEPT ![i].completed = TRUE],
                         save  |-> TRUE,
                         msg   |-> "Completed"]

\* complete_task with a slip: an already completed task is stamped again.
complete_task_restamp(ts, task_id, now) ==
    LET i == find_from(ts, task_id, 1)
    IN  IF i = 0
           THEN [todos |-> ts, save |-> FALSE, msg |-> "NotFound"]
           ELSE IF ts[i].completed
                   THEN [todos |-> [ts EXCEPT ![i].completed_at = isoformat(now)],
                         save  |-> FALSE,
                         msg   |-> "AlreadyCompleted"]
                   ELSE [todos |-> [ts EXCEPT ![i].completed = TRUE,
                                              ![i].completed_at = isoformat(now)],
                         save  |-> TRUE,
                         msg   |-> "Completed"]

\* complete_task with a slip: the loop does not return at the first match, so
\* every pending task with the id is completed.
complete_task_all(ts, task_id, now) ==
    LET i == find_from(ts, task_id, 1)
    IN  IF i = 0
           THEN [todos |-> ts, save |-> FALSE, msg |-> "NotFound"]
           ELSE IF ts[i].completed
                   THEN [todos |-> ts, save |-> FALSE, msg |-> "AlreadyCompleted"]
                   ELSE [todos |-> [k \in 1..Len(ts) |->
                                      IF ts[k].id = task_id /\ ~ts[k].completed
                                         THEN [ts[k] EXCEPT !.completed = TRUE,
                                                            !.completed_at = isoformat(now)]
                                         ELSE ts[k]],
                         save  |-> TRUE,
                         msg   |-> "Completed"]

complete_task(ts, task_id, now) ==
    LET i == find_from(ts, task_id, 1)
    IN  IF i = 0
           THEN [todos |-> ts, save |-> FALSE, msg |-> "NotFound"]
           ELSE IF ts[i].completed
                   THEN [todos |-> ts, save |-> FALSE, msg |-> "AlreadyCompleted"]
                   ELSE [todos |-> [ts EXCEPT ![i].completed = TRUE,
                                              ![i].completed_at = isoformat(now)],
                         save  |-> TRUE,
                         msg   |-> "Completed"]

\* delete_task with a slip: every task with the id is removed.
delete_task_all(ts, task_id) ==
    LET i == find_from(ts, task_id, 1)
    IN  IF i = 0
           THEN [todos |-> ts, save |-> FALSE, msg |-> "NotFound"]
           ELSE [todos |-> SelectSeq(ts, LAMBDA t : t.id # task_id),
                 save  |-> TRUE,
                 msg   |-> "Deleted"]

\* delete_task with a slip: when no task has the id, the last task is removed.
delete_task_pop_last(ts, task_id) ==
    LET i == find_from(ts, task_id, 1)
    IN  IF i = 0
           THEN [todos |-> pop(ts, Len(ts)), save |-> TRUE, msg |-> "NotFound"]
           ELSE [todos |-> pop(ts, i), save |-> TRUE, msg |-> "Deleted"]

delete_task(ts, task_id) ==
    LET i == find_from(ts, task_id, 1)
    IN  IF i = 0
           THEN [todos |-> ts, save |-> FALSE, msg |-> "NotFound"]
           ELSE [todos |-> pop(ts, i), save |-> TRUE, msg |-> "Deleted"]

\* total, completed, pending, and the completion rate in tenths of a percent
\* (printed with one decimal); no rate when there are no tasks.
get_stats(ts) ==
    LET total     == Len(ts)
        completed == Len(SelectSeq(ts, LAMBDA t : t.completed))
    IN  [total     |-> total,
         completed |-> completed,
         pending   |-> total - completed,
         rate      |-> IF total > 0
                          THEN <<(completed * 2000 + total) \div (2 * total)>>
                          ELSE None]

---------------------------------------------------------------------------
(* The state machine *)

\* What the last command printed.
Output(op, id, msg, shown, stats) ==
    [op |-> op, id |-> id, msg |-> msg, shown |-> shown, stats |-> stats]

\* TodoApp() with no todos.json present.
Init ==
    /\ todos = load_todos(NoFile)
    /\ file = NoFile
    /\ clock = 0
    /\ out = Output("start", 0, "", <<>>, None)

\* add <task> [priority]
AddTask ==
    \E task \in Descs, priority \in PriorityInputs :
       /\ clock < MaxClock
       /\ LET r == add_task(todos, task, priority, clock + 1)
          IN  /\ todos' = r.todos
              /\ file' = IF r.save THEN save_todos(r.todos) ELSE file
              /\ out' = Output("add", 0, r.msg, <<>>, None)
       /\ clock' = clock + 1

\* list
ViewPending ==
    LET r == view_tasks(todos, FALSE)
    IN  /\ todos' = r.todos
        /\ out' = Output("list", 0, r.msg, r.shown, None)
        /\ UNCHANGED <<file, clock>>

\* list all
ViewAll ==
    LET r == view_tasks(todos, TRUE)
    IN  /\ todos' = r.todos
        /\ out' = Output("list all", 0, r.msg, r.shown, None)
        /\ UNCHANGED <<file, clock>>

\* complete <id>
CompleteTask ==
    \E task_id \in TaskIds :
       LET r == complete_task(todos, task_id, clock + 1)
       IN  /\ r.save => clock < MaxClock
           /\ todos' = r.todos
           /\ file' = IF r.save THEN save_todos(r.todos) ELSE file
           /\ clock' = IF r.save THEN clock + 1 ELSE clock
           /\ out' = Output("complete", task_id, r.msg, <<>>, None)

\* delete <id>
DeleteTask ==
    \E task_id \in TaskIds :
       LET r == delete_task(todos, task_id)
       IN  /\ todos' = r.todos
           /\ file' = IF r.save THEN save_todos(r.todos) ELSE file
           /\ out' = Output("delete", task_id, r.msg, <<>>, None)
           /\ UNCHANGED clock

\* stats
GetStats ==
    /\ out' = Output("stats", 0, "Stats", <<>>, <<get_stats(todos)>>)
    /\ UNCHANGED <<todos, file, clock>>

\* quit, then the program is started again: TodoApp() reads the file.
Restart ==
    /\ todos' = load_todos(file)
    /\ out' = Output("start", 0, "", <<>>, None)
    /\ UNCHANGED <<file, clock>>

Next ==
    \/ AddTask
    \/ ViewPending
    \/ ViewAll
    \/ CompleteTask
    \/ DeleteTask
    \/ GetStats
    \/ Restart

Spec == Init /\ [][Next]_vars

---------------------------------------------------------------------------
(* Vocabulary of the properties *)

\* A command that rewrote the file ran last.
Mutated ==
    \/ out.op = "add"
    \/ out.op = "complete" /\ out.msg = "Completed"
    \/ out.op = "delete" /\ out.msg = "Deleted"

\* i is the position of the first task of ts whose id is task_id.
IsFirstWithId(ts, task_id, i) ==
    /\ i \in 1..Len(ts)
    /\ ts[i].id = task_id
    /\ \A j \in 1..(i - 1) : ts[j].id # task_id

\* Some task of ts has the id task_id.
HasId(ts, task_id) == \E i \in 1..Len(ts) : ts[i].id = task_id

\* Two tasks at different positions of ts share the id task_id.
SharedId(ts, task_id) ==
    \E i, j \in 1..Len(ts) : i # j /\ ts[i].id = task_id /\ ts[j].id = task_id

\* ts without its i-th element.
Without(ts, i) == [k \in 1..(Len(ts) - 1) |-> IF k < i THEN ts[k] ELSE ts[k + 1]]

\* How often the task t occurs in ts.
Count(ts, t) == Cardinality({i \in 1..Len(ts) : ts[i] = t})

\* The elements of ts.
Range(ts) == {ts[i] : i \in 1..Len(ts)}

\* The tasks of ts with priority p, in order.
WithPriority(ts, p) == SelectSeq(ts, LAMBDA t : t.priority = p)

\* The priorities of ts, in order.
Priorities(ts) == [i \in 1..Len(ts) |-> ts[i].priority]

\* 1 for high, 2 for medium, 3 for low.
Rank(p) == IF p = "high" THEN 1 ELSE IF p = "medium" THEN 2 ELSE 3

---------------------------------------------------------------------------
(* Properties *)

\* C1: in every reachable state every task has completed_at set if and only if
\* its completed flag is true.
CompletedAtIffCompleted ==
    \A i \in 1..Len(todos) : (todos[i].completed_at # None) <=> todos[i].completed

\* C1 witness: a task has just been completed while another is still pending.
CompletedAtIffCompletedWitness ==
    /\ out.op = "complete" /\ out.msg = "Completed"
    /\ \E i, j \in 1..Len(todos) :
          /\ todos[i].completed /\ todos[i].completed_at # None
          /\ ~todos[j].completed

\* C2: right after every mutating command (add, a successful complete, a
\* successful delete) loading the file yields exactly the in-memory tasks, in
\* the same order and with the same fields.
FileHoldsTodosAfterMutation ==
    Mutated => file.exists /\ load_todos(file) = todos

\* C2 witness: three tasks were added, one of them is completed, and a mutating
\* command ran last.
FileHoldsTodosAfterMutationWitness ==
    /\ Mutated
    /\ Len(todos) >= 3
    /\ \E i \in 1..Len(todos) : todos[i].completed

\* C3: complete(id), when the first task with that id is pending, marks it
\* completed with a completed_at timestamp and persists; when that task is
\* already completed it reports AlreadyCompleted and changes neither the list
\* nor the file.
CompleteThenAlreadyCompleted ==
    [][\A i \in 1..Len(todos) :
          (out'.op = "complete" /\ IsFirstWithId(todos, out'.id, i)) =>
             IF todos[i].completed
                THEN /\ out'.msg = "AlreadyCompleted"
                     /\ todos' = todos
                     /\ file' = file
                ELSE /\ out'.msg = "Completed"
                     /\ Len(todos') = Len(todos)
                     /\ todos'[i].completed
                     /\ todos'[i].completed_at # None
                     /\ file'.exists /\ load_todos(file') = todos']_vars

\* C3 witness: a complete was answered with AlreadyCompleted.
CompleteThenAlreadyCompletedWitness ==
    /\ out.op = "complete" /\ out.msg = "AlreadyCompleted"
    /\ \E i \in 1..Len(todos) :
          IsFirstWithId(todos, out.id, i) /\ todos[i].completed_at # None

\* C4: delete(id), when some task has that id, removes exactly the first task
\* with that id; every other task keeps its id, fields and relative order.
DeleteRemovesFirstMatchOnly ==
    [][(out'.op = "delete" /\ HasId(todos, out'.id)) =>
          \E i \in 1..Len(todos) :
             /\ IsFirstWithId(todos, out'.id, i)
             /\ todos' = Without(todos, i)
             /\ out'.msg = "Deleted"]_vars

\* C4 witness: a delete succeeded, two tasks survive, and one of them has the
\* deleted id (so the id was shared before the delete).
DeleteRemovesFirstMatchOnlyWitness ==
    /\ out.op = "delete" /\ out.msg = "Deleted"
    /\ Len(todos) >= 2
    /\ HasId(todos, out.id)

\* C5: add appends exactly one task at the end, with id = previous length + 1,
\* completed false and completed_at unset, changes no earlier task, and
\* persists the result.
AddAppendsOneTask ==
    [][out'.op = "add" =>
          /\ Len(todos') = Len(todos) + 1
          /\ SubSeq(todos', 1, Len(todos)) = todos
          /\ todos'[Len(todos')].id = Len(todos) + 1
          /\ todos'[Len(todos')].completed = FALSE
          /\ todos'[Len(todos')].completed_at = None
          /\ todos'[Len(todos')].priority \in {"high", "medium", "low"}
          /\ file'.exists /\ load_todos(file') = todos']_vars

\* C5 witness: a task was added to a store that already held two.
AddAppendsOneTaskWitness ==
    /\ out.op = "add"
    /\ Len(todos) >= 3
    /\ todos[Len(todos)].id = Len(todos)

\* C6: complete(id) and delete(id) with an id no task has report NotFound and
\* change neither the in-memory list nor the file.
NotFoundChangesNothing ==
    [][(out'.op \in {"complete", "delete"} /\ ~HasId(todos, out'.id)) =>
          /\ out'.msg = "NotFound"
          /\ todos' = todos
          /\ file' = file]_vars

\* C6 witness: NotFound was reported on a store that holds tasks.
NotFoundChangesNothingWitness ==
    /\ out.op \in {"complete", "delete"} /\ out.msg = "NotFound"
    /\ Len(todos) >= 2
    /\ ~HasId(todos, out.id)

\* C7: list shows exactly the pending tasks (no completed task, no pending
\* task left out) and list all shows every task of the store.
ListShowsTheRightTasks ==
    /\ out.op = "list" =>
          \A t \in Range(todos) \cup Range(out.shown) :
             Count(out.shown, t) = IF t.completed THEN 0 ELSE Count(todos, t)
    /\ out.op = "list all" =>
          \A t \in Range(todos) \cup Range(out.shown) :
             Count(out.shown, t) = Count(todos, t)

\* C7 witness: list ran on a store with both completed and pending tasks.
ListShowsTheRightTasksWitness ==
    /\ out.op = "list"
    /\ Len(out.shown) >= 2
    /\ \E i \in 1..Len(todos) : todos[i].completed

\* C8: the listing is ordered high, then medium, then low, and tasks of equal
\* priority keep the relative order they have in the store.
ListingSortedStable ==
    [][(out'.op \in {"list", "list all"}) =>
          LET src == IF out'.op = "list all"
                        THEN todos
                        ELSE SelectSeq(todos, LAMBDA t : ~t.completed)
              shown == out'.shown
          IN  /\ \A i, j \in 1..Len(shown) :
                    i < j => Rank(shown[i].priority) <= Rank(shown[j].priority)
              /\ \A p \in {"high", "medium", "low"} :
                    WithPriority(shown, p) = WithPriority(src, p)]_vars

\* C8 witness: tasks saved in the order low, high, medium are listed as high,
\* medium, low.
ListingSortedStableWitness ==
    /\ out.op = "list all"
    /\ Priorities(load_todos(file)) = <<"low", "high", "medium">>
    /\ Priorities(out.shown) = <<"high", "medium", "low">>

\* C9: list, list all and stats are read-only: they change neither the
\* in-memory task sequence nor the file.
ListAndStatsReadOnly ==
    [][(out'.op \in {"list", "list all", "stats"}) =>
          /\ todos' = todos
          /\ file' = file]_vars

\* C10: when two tasks share an id, complete(id) changes only the first of
\* them and delete(id) removes only the first of them.
SharedIdActsOnFirst ==
    [][\A i \in 1..Len(todos) :
          (/\ out'.op \in {"complete", "delete"}
           /\ SharedId(todos, out'.id)
           /\ IsFirstWithId(todos, out'.id, i)) =>
             IF out'.op = "delete"
                THEN todos' = Without(todos, i)
                ELSE /\ Len(todos') = Len(todos)
                     /\ \A j \in 1..Len(todos) : j # i => todos'[j] = todos[j]
                     /\ todos'[i].id = todos[i].id
                     /\ todos'[i].completed]_vars

\* C10 witness: two tasks share an id; complete on that id has completed the
\* first and left the second pending.
SharedIdActsOnFirstWitness ==
    /\ out.op = "complete" /\ out.msg = "Completed"
    /\ \E i, j \in 1..Len(todos) :
          /\ i < j
          /\ IsFirstWithId(todos, out.id, i)
          /\ todos[j].id = out.id
          /\ todos[i].completed
          /\ ~todos[j].completed

=============================================================================
